---------------------------- MODULE Spec2Model ----------------------------
(***************************************************************************)
(* A model of minisweagent's AnthropicToolcallModel                        *)
(* (src/src/minisweagent/models/anthropic_toolcall_model.py): the four     *)
(* methods of the provider adapter, each as one action over the objects    *)
(* it reads and writes.                                                    *)
(*                                                                         *)
(*   parse_actions               SpecParse                                 *)
(*   format_observation_messages SpecFormat                                *)
(*   _query                      SpecHeaders                               *)
(*   query                       SpecCache                                 *)
(*                                                                         *)
(* Python values are modelled as follows.  A dict is a function whose      *)
(* DOMAIN is its key set.  A str that the code only copies or compares is  *)
(* a TLA+ string.  A str that the code searches or concatenates is a       *)
(* sequence of pieces, concatenation being \o.  None is the string NoneV.  *)
(* A call either returns or raises; both outcomes are one record           *)
(* [kind, exc, ...].                                                       *)
(***************************************************************************)
EXTENDS Integers, Sequences, FiniteSets

VARIABLES
    pc,             \* "ready": inputs chosen, method not called; "done": it returned or raised
    response,       \* parse_actions: response.choices[0].message.tool_calls
    parsed,         \* parse_actions: what the call returned or raised
    observation_template, \* self.config.observation_template
    message,        \* format_observation_messages: the originating message
    outputs,        \* format_observation_messages: the execution outputs
    template_vars,  \* format_observation_messages: the template_vars argument
    observation,    \* format_observation_messages: what the call returned or raised
    reasoning_effort, \* self.config.model_kwargs.get('reasoning_effort')
    passes_headers, \* _query: whether the caller passes extra_headers=
    caller_headers, \* _query: the caller's header dict object
    caller_messages,\* _query: the caller's message list object
    entry_headers,  \* _query: contents of caller_headers when the last call began
    sent,           \* _query: the arguments handed to super()._query
    ncalls,         \* _query: calls made so far on the same header dict
    cache_mode,     \* self.config.set_cache_control
    history,        \* query: the caller's conversation history
    outbound        \* query: the messages handed to super().query

vars == <<pc, response, parsed, observation_template, message, outputs, template_vars, observation,
          reasoning_effort, passes_headers, caller_headers, caller_messages,
          entry_headers, sent, ncalls, cache_mode, history, outbound>>

parseVars == <<response, parsed>>
formatVars == <<observation_template, message, outputs, template_vars, observation>>
headerVars == <<reasoning_effort, passes_headers, caller_headers, caller_messages,
                entry_headers, sent, ncalls>>
cacheVars == <<cache_mode, history, outbound>>

-----------------------------------------------------------------------------
(* Python values                                                           *)

NoneV == "<None>"

EmptyDict == [k \in {} |-> NoneV]

\* d.get(k, default)
DictGet(d, k, default) == IF k \in DOMAIN d THEN d[k] ELSE default

\* a | b, and {**a, **b}: the right operand wins on a shared key
DictMerge(a, b) ==
    [k \in (DOMAIN a) \cup (DOMAIN b) |-> IF k \in DOMAIN b THEN b[k] ELSE a[k]]

\* d[k] = v
DictSet(d, k, v) == DictMerge(d, [x \in {k} |-> v])

\* zip(a, b) stops at the shorter operand
Min(a, b) == IF a <= b THEN a ELSE b

-----------------------------------------------------------------------------
(* parse_actions                                                           *)

\* Longest tool_calls list of a response
MaxToolCalls == 3

ToolCallIds == {"toolu_01", "toolu_02"}

BashToolName == "bash"

ToolNames == {BashToolName, "grep", "sed"}

\* tool_call.function.arguments, as the provider sends it: JSON text
ArgCommand == "{\"command\": \"ls\"}"
ArgEmptyObject == "{}"
ArgList == "[]"
ArgNull == "null"
ArgNumber == "7"
ArgTruncated == "{\"command\": "

ArgumentTexts == {ArgCommand, ArgEmptyObject, ArgList, ArgNull, ArgNumber, ArgTruncated}

ToolCalls ==
    [id : ToolCallIds, function : [name : ToolNames, arguments : ArgumentTexts]]

\* response.choices[0].message.tool_calls: None, or a list
NoToolCalls == [is_none |-> TRUE, calls |-> <<>>]

ToolCallList(calls) == [is_none |-> FALSE, calls |-> calls]

\* json.loads(text): the decoded value, or the decoder's error text
json_loads(text) ==
    CASE text = ArgCommand ->
            [ok |-> TRUE, type |-> "object", members |-> [k \in {"command"} |-> "ls"], error |-> ""]
      [] text = ArgEmptyObject ->
            [ok |-> TRUE, type |-> "object", members |-> EmptyDict, error |-> ""]
      [] text = ArgList ->
            [ok |-> TRUE, type |-> "list", members |-> EmptyDict, error |-> ""]
      [] text = ArgNull ->
            [ok |-> TRUE, type |-> "NoneType", members |-> EmptyDict, error |-> ""]
      [] text = ArgNumber ->
            [ok |-> TRUE, type |-> "int", members |-> EmptyDict, error |-> ""]
      [] OTHER ->
            [ok |-> FALSE, type |-> "", members |-> EmptyDict,
             error |-> "Expecting value: line 1 column 13 (char 12)"]

\* What a call hands back: a returned list, or a raised exception with the
\* messages it carries (FormatError carries its message arguments).
Returned(list) == [kind |-> "return", exc |-> "", value |-> list, messages |-> <<>>]

Raised(exc, msgs) == [kind |-> "raise", exc |-> exc, value |-> <<>>, messages |-> msgs]

\* args["command"]: the value, or the exception the subscript raises
subscript_command(args) ==
    IF args.type = "object"
    THEN IF "command" \in DOMAIN args.members
         THEN [ok |-> TRUE, value |-> args.members["command"], exc |-> ""]
         ELSE [ok |-> FALSE, value |-> "", exc |-> "KeyError"]
    ELSE [ok |-> FALSE, value |-> "", exc |-> "TypeError"]

\* A mutant of error_msg_of: the unknown-tool text leaves the name out.
error_msg_without_name(tool_call) ==
    LET decoded == json_loads(tool_call.function.arguments)
        parse_error == IF decoded.ok THEN <<>>
                       ELSE <<"Error parsing tool call arguments: ", decoded.error, ".">>
    IN  IF tool_call.function.name # BashToolName
        THEN parse_error \o <<"Unknown tool">>
        ELSE parse_error

\* error_msg after the try/except and the name test, as a sequence of pieces
error_msg_of(tool_call) ==
    LET decoded == json_loads(tool_call.function.arguments)
        parse_error == IF decoded.ok THEN <<>>
                       ELSE <<"Error parsing tool call arguments: ", decoded.error, ".">>
    IN  IF tool_call.function.name # BashToolName
        THEN parse_error \o <<"Unknown tool '", tool_call.function.name, "'">>
        ELSE parse_error

\* The message FormatError is raised with
format_error_message(error_msg) ==
    [role |-> "user", content |-> error_msg, extra |-> [interrupt_type |-> "FormatError"]]

\* The dict appended to actions
action_of(command, tool_call) == [command |-> command, tool_call_id |-> tool_call.id]

\* The for loop from its i-th iteration on, actions being the list so far
RECURSIVE parse_loop(_, _, _)
parse_loop(tool_calls, i, actions) ==
    IF i > Len(tool_calls) THEN Returned(actions)
    ELSE LET tool_call == tool_calls[i]
             error_msg == error_msg_of(tool_call)
             command == subscript_command(json_loads(tool_call.function.arguments))
         IN  IF error_msg # <<>>
             THEN Raised("FormatError", <<format_error_message(error_msg)>>)
             ELSE IF ~command.ok
             THEN Raised(command.exc, <<>>)
             ELSE parse_loop(tool_calls, i + 1,
                             Append(actions, action_of(command.value, tool_call)))

\* parse_actions(response)
parse_actions(resp) ==
    LET tool_calls == IF resp.is_none THEN <<>> ELSE resp.calls
    IN  parse_loop(tool_calls, 1, <<>>)

NoResult == Returned(<<>>)

-----------------------------------------------------------------------------
(* format_observation_messages                                             *)

\* Longest invocation list of a message, longest list of outputs
MaxActions == 2

MaxOutputs == 2

\* An optional dict entry
Absent == [has |-> FALSE, v |-> NoneV]

Present(v) == [has |-> TRUE, v |-> v]

Entry(k, opt) == IF opt.has THEN [x \in {k} |-> opt.v] ELSE EmptyDict

\* The executor's output dict: each key may be missing
OutputDict(output, returncode, exception_info, extra) ==
    DictMerge(DictMerge(Entry("output", output), Entry("returncode", returncode)),
              DictMerge(Entry("exception_info", exception_info),
                        IF extra.has THEN [x \in {"extra"} |-> extra.v] ELSE EmptyDict))

OutputTexts == {Absent, Present("hello\n")}
ReturnCodes == {Absent, Present("0")}
ExceptionInfos == {Absent, Present("TimeoutExpired")}
OutputExtras ==
    {[has |-> FALSE, v |-> EmptyDict],
     [has |-> TRUE, v |-> [k \in {"exception_type"} |-> "TimeoutExpired"]],
     [has |-> TRUE, v |-> [k \in {"raw_output"} |-> "partial"]]}

Outputs ==
    {OutputDict(o, rc, ei, ex) :
        o \in OutputTexts, rc \in ReturnCodes, ei \in ExceptionInfos, ex \in OutputExtras}

\* The dicts parse_actions puts in a message's extra["actions"]
Actions == [command : {"ls"}, tool_call_id : ToolCallIds]

\* The originating message: without "extra", without "actions", or with a list
MessageNoExtra == [role |-> "assistant"]

MessageNoActions == [role |-> "assistant", extra |-> EmptyDict]

MessageWith(actions) == [role |-> "assistant", extra |-> [k \in {"actions"} |-> actions]]

\* template_vars: None, or a dict
NoTemplateVars == [is_none |-> TRUE, vars |-> EmptyDict]

TemplateVars(d) == [is_none |-> FALSE, vars |-> d]

\* observation_template, as the set of variable names it prints
Templates == {{"output"}, {"output", "cwd"}}

\* bool(v) of a str or None
Truthy(v) == v # NoneV /\ v # ""

\* Template(observation_template, undefined=StrictUndefined).render(output=output,
\* **(template_vars or {})): the text, or UndefinedError for a name not supplied
render(template, output, tvars) ==
    LET supplied == {"output"} \cup (IF tvars.is_none THEN {} ELSE DOMAIN tvars.vars)
    IN  IF template \subseteq supplied
        THEN [ok |-> TRUE, text |-> <<"rendered", template, output>>]
        ELSE [ok |-> FALSE, text |-> <<>>]

\* time.time()
time_time == "<now>"

\* self.format_message(**kwargs), of LitellmModel: the message dict of its arguments
format_message(role, tool_call_id, content, extra) ==
    [role |-> role, tool_call_id |-> tool_call_id, content |-> content, extra |-> extra]

\* The extra= dict of one tool-result message
observation_extra(output) ==
    DictMerge(
        [k \in {"raw_output", "returncode", "timestamp"} |->
            CASE k = "raw_output" -> DictGet(output, "output", "")
              [] k = "returncode" -> DictGet(output, "returncode", NoneV)
              [] OTHER -> time_time],
        IF Truthy(DictGet(output, "exception_info", NoneV))
        THEN DictMerge([k \in {"exception_info"} |-> output["exception_info"]],
                       DictGet(output, "extra", EmptyDict))
        ELSE EmptyDict)

\* A mutant of zip_pairs: the last pair is lost.
zip_pairs_drop_last(actions, outs) ==
    [i \in 1..(Min(Len(actions), Len(outs)) - 1) |-> [action |-> actions[i], output |-> outs[i]]]

\* zip(actions, outputs)
zip_pairs(actions, outs) ==
    [i \in 1..Min(Len(actions), Len(outs)) |-> [action |-> actions[i], output |-> outs[i]]]

\* A mutant of tool_result_message: every result answers the first call.
tool_result_message_first_id(pairs, i, content) ==
    format_message("tool", pairs[1].action.tool_call_id, content,
                   observation_extra(pairs[i].output))

\* The message appended to results for the i-th pair
tool_result_message(pairs, i, content) ==
    format_message("tool", pairs[i].action.tool_call_id, content,
                   observation_extra(pairs[i].output))

\* The for loop from its i-th pair on, results being the list so far
RECURSIVE format_loop(_, _, _, _, _)
format_loop(pairs, template, tvars, i, results) ==
    IF i > Len(pairs) THEN Returned(results)
    ELSE LET content == render(template, pairs[i].output, tvars)
         IN  IF ~content.ok
             THEN Raised("UndefinedError", <<>>)
             ELSE format_loop(pairs, template, tvars, i + 1,
                              Append(results, tool_result_message(pairs, i, content.text)))

\* message.get("extra", {}).get("actions", [])
actions_of(msg) == DictGet(DictGet(msg, "extra", EmptyDict), "actions", <<>>)

\* format_observation_messages(message, outputs, template_vars)
format_observation_messages(template, msg, outs, tvars) ==
    format_loop(zip_pairs(actions_of(msg), outs), template, tvars, 1, <<>>)

-----------------------------------------------------------------------------
(* _query                                                                  *)

\* Longest anthropic-beta value the caller supplies, in pieces
MaxHeaderLen == 3

\* Calls made with the same header dict (the first call and its retries)
MaxQueryCalls == 2

ANTHROPIC_INTERLEAVED_THINKING_HEADER == "interleaved-thinking-2025-05-14"

BASH_TOOL ==
    [type |-> "function",
     function |-> [name |-> BashToolName,
                   description |-> "Execute a bash command",
                   parameters |-> [type |-> "object",
                                   properties |-> {"command"},
                                   required |-> <<"command">>]]]

\* A header value is a str the code searches and extends: a sequence of
\* pieces, each a character or the whole feature token.  No proper part of
\* the token joined with these characters spells the token, so the token is
\* a substring of the value exactly when it is one of its pieces.
HeaderPieces == {"a", "b", ",", ANTHROPIC_INTERLEAVED_THINKING_HEADER}

BetaKey == "anthropic-beta"

OtherKey == "x-request-id"

\* needle in haystack, of str
str_contains(haystack, needle) == \E i \in 1..Len(haystack) : haystack[i] = needle

\* bool(self.config.model_kwargs.get('reasoning_effort'))
ReasoningEfforts == {NoneV, "", "high"}

\* A mutant of merged_headers: the token is appended without looking for it.
merged_headers_always_append(extra_headers, effort) ==
    IF Truthy(effort)
    THEN LET existing_beta == DictGet(extra_headers, BetaKey, <<>>)
         IN  IF existing_beta # <<>>
             THEN DictSet(extra_headers, BetaKey,
                          existing_beta \o <<",">> \o <<ANTHROPIC_INTERLEAVED_THINKING_HEADER>>)
             ELSE DictSet(extra_headers, BetaKey, <<ANTHROPIC_INTERLEAVED_THINKING_HEADER>>)
    ELSE extra_headers

\* The contents of extra_headers after the reasoning_effort block
merged_headers(extra_headers, effort) ==
    IF Truthy(effort)
    THEN LET existing_beta == DictGet(extra_headers, BetaKey, <<>>)
         IN  IF ~str_contains(existing_beta, ANTHROPIC_INTERLEAVED_THINKING_HEADER)
             THEN IF existing_beta # <<>>
                  THEN DictSet(extra_headers, BetaKey,
                               existing_beta \o <<",">> \o <<ANTHROPIC_INTERLEAVED_THINKING_HEADER>>)
                  ELSE DictSet(extra_headers, BetaKey, <<ANTHROPIC_INTERLEAVED_THINKING_HEADER>>)
             ELSE extra_headers
    ELSE extra_headers

\* The header dicts a caller passes
CallerHeaderDicts ==
    {DictMerge(beta, other) :
        beta \in {EmptyDict}
                    \cup {[k \in {BetaKey} |-> v] :
                            v \in UNION {[1..n -> HeaderPieces] : n \in 0..MaxHeaderLen}},
        other \in {EmptyDict, [k \in {OtherKey} |-> <<"a">>]}}

CallerMessageLists == {<<>>, <<[role |-> "user", content |-> "fix bug"]>>}

-----------------------------------------------------------------------------
(* query                                                                   *)

\* Longest conversation history
MaxHistory == 3

Roles == {"user", "assistant", "tool"}

\* A message of the history; cache_control tells whether it carries a
\* cache boundary marker
HistoryMessages == [role : Roles, content : {"text"}, cache_control : BOOLEAN]

\* The number of messages of a history that carry the marker
MarkerCount(messages) == Cardinality({i \in 1..Len(messages) : messages[i].cache_control})

\* set_cache_control(messages, mode="default_end"), of
\* minisweagent.models.utils.cache_control: a new list with the old markers
\* cleared and one marker on the last message
set_cache_control(messages, mode) ==
    [i \in 1..Len(messages) |->
        [messages[i] EXCEPT !.cache_control = (i = Len(messages))]]

\* A mutant of query_messages: the configuration is not consulted.
query_messages_always_annotated(messages, mode) == set_cache_control(messages, "default_end")

\* The messages query hands to super().query
query_messages(messages, mode) ==
    IF Truthy(mode) THEN set_cache_control(messages, mode) ELSE messages

-----------------------------------------------------------------------------
(* Values the variables of the other methods hold while one method runs    *)

IdleFormat ==
    /\ observation_template = {}
    /\ message = EmptyDict
    /\ outputs = <<>>
    /\ template_vars = NoTemplateVars
    /\ observation = NoResult

IdleParse ==
    /\ response = NoToolCalls
    /\ parsed = NoResult

IdleHeaders ==
    /\ reasoning_effort = NoneV
    /\ passes_headers = FALSE
    /\ caller_headers = EmptyDict
    /\ caller_messages = <<>>
    /\ entry_headers = EmptyDict
    /\ sent = [messages |-> <<>>, tools |-> <<>>, extra_headers |-> EmptyDict]
    /\ ncalls = 0

IdleCache ==
    /\ cache_mode = NoneV
    /\ history = <<>>
    /\ outbound = <<>>

-----------------------------------------------------------------------------
(* SpecParse: parse_actions applied to every response within the bounds    *)

InitParse ==
    /\ pc = "ready"
    /\ \E n \in 0..MaxToolCalls : \E calls \in [1..n -> ToolCalls] :
            response \in {ToolCallList(calls)} \cup (IF n = 0 THEN {NoToolCalls} ELSE {})
    /\ parsed = NoResult
    /\ IdleFormat /\ IdleHeaders /\ IdleCache

ParseActions ==
    /\ pc = "ready"
    /\ parsed' = parse_actions(response)
    /\ pc' = "done"
    /\ UNCHANGED <<response, formatVars, headerVars, cacheVars>>

NextParse == ParseActions

SpecParse == InitParse /\ [][NextParse]_vars

-----------------------------------------------------------------------------
(* SpecFormat: format_observation_messages applied to every message, list  *)
(* of outputs, template and template_vars within the bounds                *)

InitFormat ==
    /\ pc = "ready"
    /\ observation_template \in Templates
    /\ \E n \in 0..MaxActions : \E actions \in [1..n -> Actions] :
            message \in {MessageWith(actions)}
                \cup (IF n = 0 THEN {MessageNoExtra, MessageNoActions} ELSE {})
    /\ \E m \in 0..MaxOutputs : outputs \in [1..m -> Outputs]
    /\ template_vars \in {NoTemplateVars, TemplateVars([k \in {"cwd"} |-> "/testbed"])}
    /\ observation = NoResult
    /\ IdleParse /\ IdleHeaders /\ IdleCache

FormatObservationMessages ==
    /\ pc = "ready"
    /\ observation' =
           format_observation_messages(observation_template, message, outputs, template_vars)
    /\ pc' = "done"
    /\ UNCHANGED <<observation_template, message, outputs, template_vars,
                   parseVars, headerVars, cacheVars>>

NextFormat == FormatObservationMessages

SpecFormat == InitFormat /\ [][NextFormat]_vars

-----------------------------------------------------------------------------
(* SpecHeaders: _query called, and called again, with the same header dict *)

InitHeaders ==
    /\ pc = "ready"
    /\ reasoning_effort \in ReasoningEfforts
    /\ passes_headers \in BOOLEAN
    /\ caller_headers \in (IF passes_headers THEN CallerHeaderDicts ELSE {EmptyDict})
    /\ caller_messages \in CallerMessageLists
    /\ entry_headers = caller_headers
    /\ sent = [messages |-> <<>>, tools |-> <<>>, extra_headers |-> EmptyDict]
    /\ ncalls = 0
    /\ IdleParse /\ IdleFormat /\ IdleCache

\* _query(messages, **kwargs): extra_headers is the caller's dict when one is
\* passed, and a new empty dict otherwise; the item assignment writes to it.
Query_ ==
    /\ ncalls < MaxQueryCalls
    /\ LET extra_headers == IF passes_headers THEN caller_headers ELSE EmptyDict
           after == merged_headers(extra_headers, reasoning_effort)
       IN  /\ entry_headers' = caller_headers
           /\ caller_headers' = IF passes_headers THEN after ELSE caller_headers
           /\ sent' = [messages |-> caller_messages, tools |-> <<BASH_TOOL>>,
                       extra_headers |-> after]
    /\ ncalls' = ncalls + 1
    /\ pc' = "done"
    /\ UNCHANGED <<reasoning_effort, passes_headers, caller_messages,
                   parseVars, formatVars, cacheVars>>

NextHeaders == Query_

SpecHeaders == InitHeaders /\ [][NextHeaders]_vars

-----------------------------------------------------------------------------
(* SpecCache: query called on a history the caller keeps appending to      *)

InitCache ==
    /\ pc = "ready"
    /\ cache_mode \in {NoneV, "default_end"}
    /\ \E n \in 1..MaxHistory : history \in [1..n -> HistoryMessages]
    /\ outbound = <<>>
    /\ IdleParse /\ IdleFormat /\ IdleHeaders

\* query(messages): the caller's list is not written to
Query ==
    /\ pc = "ready"
    /\ outbound' = query_messages(history, cache_mode)
    /\ pc' = "done"
    /\ UNCHANGED <<cache_mode, history, parseVars, formatVars, headerVars>>

\* The caller appends the reply or an observation to its history
AppendMessage ==
    /\ pc = "done"
    /\ Len(history) < MaxHistory
    /\ \E role \in Roles :
           history' = Append(history, [role |-> role, content |-> "text",
                                       cache_control |-> FALSE])
    /\ pc' = "ready"
    /\ UNCHANGED <<cache_mode, outbound, parseVars, formatVars, headerVars>>

NextCache == Query \/ AppendMessage

SpecCache == InitCache /\ [][NextCache]_vars

-----------------------------------------------------------------------------
(* Properties of parse_actions, checked under SpecParse                    *)

\* The tool calls of the response: "tool_calls or []"
Calls == IF response.is_none THEN <<>> ELSE response.calls

\* A call with an unrecognized tool name or undecodable arguments
Offending(tool_call) ==
    \/ tool_call.function.name # BashToolName
    \/ ~json_loads(tool_call.function.arguments).ok

IsFormatViolation(result) == result.kind = "raise" /\ result.exc = "FormatError"

\* The tool names a message content spells out
MentionedNames(content) == {n \in ToolNames : \E i \in 1..Len(content) : content[i] = n}

FirstOffending ==
    CHOOSE i \in 1..Len(Calls) :
        Offending(Calls[i]) /\ \A j \in 1..(i - 1) : ~Offending(Calls[j])

\* C1: when every tool call names "bash" and carries decodable arguments,
\* parse_actions returns one invocation per call, in the provider's order,
\* the i-th with the i-th call's id; with no tool calls (an empty list or
\* None) it returns an empty list.
C1_WellFormedCallsParsedInOrder ==
    (pc = "done" /\ \A i \in 1..Len(Calls) : ~Offending(Calls[i]))
        => /\ parsed.kind = "return"
           /\ Len(parsed.value) = Len(Calls)
           /\ \A i \in 1..Len(Calls) : parsed.value[i].tool_call_id = Calls[i].id

\* C2: when some tool call, at any position, is offending, parse_actions
\* returns no list: it raises the format violation with exactly one message,
\* of role "user" and interrupt_type "FormatError".
C2_AnyOffendingCallRaisesFormatError ==
    (pc = "done" /\ \E i \in 1..Len(Calls) : Offending(Calls[i]))
        => /\ IsFormatViolation(parsed)
           /\ Len(parsed.messages) = 1
           /\ parsed.messages[1].role = "user"
           /\ parsed.messages[1].extra.interrupt_type = "FormatError"

\* C3, as claimed: the content of the format violation mentions the tool
\* name of every offending call of the response.
C3_EveryOffendingNameMentioned ==
    (pc = "done" /\ IsFormatViolation(parsed))
        => \A i \in 1..Len(Calls) :
               Offending(Calls[i])
                   => Calls[i].function.name \in MentionedNames(parsed.messages[1].content)

\* C3, amended: the format violation is about the first offending call only.
\* Its content names that call's tool when the name is not "bash", and names
\* no tool when that call is a "bash" call with undecodable arguments; the
\* names of later offending calls are not in it.
C3_FirstOffendingNameMentioned ==
    (pc = "done" /\ IsFormatViolation(parsed))
        => /\ \E i \in 1..Len(Calls) : Offending(Calls[i])
           /\ MentionedNames(parsed.messages[1].content) =
                  (IF Calls[FirstOffending].function.name # BashToolName
                   THEN {Calls[FirstOffending].function.name}
                   ELSE {})

\* A format violation for a response with two offending calls of different
\* unknown tools: the first is named, the second is not.
C3_Witness ==
    /\ pc = "done"
    /\ IsFormatViolation(parsed)
    /\ \E i, j \in 1..Len(Calls) :
           /\ i < j
           /\ i = FirstOffending
           /\ Calls[i].function.name \notin {BashToolName, Calls[j].function.name}
           /\ Calls[j].function.name # BashToolName
           /\ Calls[i].function.name \in MentionedNames(parsed.messages[1].content)
           /\ Calls[j].function.name \notin MentionedNames(parsed.messages[1].content)

\* C4: whatever the tool names and argument payloads, parse_actions returns
\* a list or raises the format violation; no other error reaches the caller.
C4_OnlyFormatErrorEscapes ==
    pc = "done" => (parsed.kind = "return" \/ IsFormatViolation(parsed))

-----------------------------------------------------------------------------
(* Properties of format_observation_messages, checked under SpecFormat     *)

\* The invocation list of the originating message
MessageActions == actions_of(message)

NPairs == Min(Len(MessageActions), Len(outputs))

\* The template names a variable the call does not supply, and there is a
\* pair to render
RenderingFails ==
    NPairs >= 1 /\ ~render(observation_template, outputs[1], template_vars).ok

\* The i-th result is the tool-result message of the i-th invocation and
\* the i-th output
PairedAt(i) ==
    /\ observation.value[i].role = "tool"
    /\ observation.value[i].tool_call_id = MessageActions[i].tool_call_id
    /\ observation.value[i].content =
           render(observation_template, outputs[i], template_vars).text

\* C5, as claimed: for n invocations and n outputs the call returns n
\* messages of role "tool", the i-th with the i-th invocation's tool_call_id.
C5_EqualLengthsPairedById ==
    (pc = "done" /\ Len(MessageActions) = Len(outputs))
        => /\ observation.kind = "return"
           /\ Len(observation.value) = Len(outputs)
           /\ \A i \in 1..Len(outputs) :
                  /\ observation.value[i].role = "tool"
                  /\ observation.value[i].tool_call_id = MessageActions[i].tool_call_id

\* C5, amended: for n invocations and n outputs the call returns n messages
\* of role "tool", the i-th with the i-th invocation's tool_call_id, unless
\* rendering the observation template fails; then the rendering error is
\* raised and no message is returned.
C5_EqualLengthsPairedByIdUnlessRenderFails ==
    (pc = "done" /\ Len(MessageActions) = Len(outputs))
        => IF RenderingFails
           THEN observation.kind = "raise" /\ observation.exc = "UndefinedError"
           ELSE /\ observation.kind = "return"
                /\ Len(observation.value) = Len(outputs)
                /\ \A i \in 1..Len(outputs) :
                       /\ observation.value[i].role = "tool"
                       /\ observation.value[i].tool_call_id = MessageActions[i].tool_call_id

\* Two invocations with different ids and two outputs, formatted into two
\* results.
C5_Witness ==
    /\ pc = "done"
    /\ Len(MessageActions) = 2
    /\ Len(outputs) = 2
    /\ MessageActions[1].tool_call_id # MessageActions[2].tool_call_id
    /\ observation.kind = "return"
    /\ Len(observation.value) = 2
    /\ observation.value[2].tool_call_id = MessageActions[2].tool_call_id

\* C9: in every tool-result message raw_output is the paired output's text
\* (empty when absent) and returncode is its return code, whatever other
\* metadata the output carries; exception_info and the output's own
\* metadata are in the result only when the output has exception information.
C9_RawOutputAndReturncodeFromOutput ==
    (pc = "done" /\ observation.kind = "return")
        => \A i \in 1..Len(observation.value) :
               LET extra == observation.value[i].extra
               IN  /\ extra["raw_output"] = DictGet(outputs[i], "output", "")
                   /\ extra["returncode"] = DictGet(outputs[i], "returncode", NoneV)
                   /\ (DOMAIN extra # {"raw_output", "returncode", "timestamp"})
                          => Truthy(DictGet(outputs[i], "exception_info", NoneV))

\* C10, as claimed: with n invocations and m outputs, n # m, the call raises
\* nothing and returns min(n, m) messages pairing the first min(n, m)
\* entries by position; a message without "extra" or without "actions"
\* yields an empty list.
C10_UnequalLengthsTruncate ==
    /\ (pc = "done" /\ Len(MessageActions) # Len(outputs))
           => /\ observation.kind = "return"
              /\ Len(observation.value) = NPairs
              /\ \A i \in 1..NPairs : PairedAt(i)
    /\ (pc = "done" /\ message \in {MessageNoExtra, MessageNoActions})
           => observation = Returned(<<>>)

\* C10, amended: with n invocations and m outputs, n # m, the length
\* mismatch raises nothing: the call returns min(n, m) messages pairing the
\* first min(n, m) entries by position, unless rendering the observation
\* template fails for a paired output, which raises the rendering error; a
\* message without "extra" or without "actions" yields an empty list.
C10_UnequalLengthsTruncateUnlessRenderFails ==
    /\ (pc = "done" /\ Len(MessageActions) # Len(outputs))
           => IF RenderingFails
              THEN observation.kind = "raise" /\ observation.exc = "UndefinedError"
              ELSE /\ observation.kind = "return"
                   /\ Len(observation.value) = NPairs
                   /\ \A i \in 1..NPairs : PairedAt(i)
    /\ (pc = "done" /\ message \in {MessageNoExtra, MessageNoActions})
           => observation = Returned(<<>>)

\* Two invocations and one output, formatted into one result for the first
\* invocation.
C10_Witness ==
    /\ pc = "done"
    /\ Len(MessageActions) = 2
    /\ Len(outputs) = 1
    /\ observation.kind = "return"
    /\ Len(observation.value) = 1
    /\ PairedAt(1)

-----------------------------------------------------------------------------
(* Properties of _query, checked under SpecHeaders                         *)

Token == ANTHROPIC_INTERLEAVED_THINKING_HEADER

\* The anthropic-beta value the caller supplied, "" when there is none
ExistingBeta == DictGet(entry_headers, BetaKey, <<>>)

\* How often the token occurs in a header value
TokenCount(value) == Cardinality({i \in 1..Len(value) : value[i] = Token})

EffortSet == reasoning_effort \notin {NoneV, ""}

\* C6: the outbound headers are the caller's, unchanged, when reasoning
\* effort is not set; when it is set, anthropic-beta is the token for an
\* empty value, the value followed by "," and the token for a value without
\* the token ("a,b" gives "a,b,<token>"), and unchanged for a value with the
\* token, which is never added a second time; other headers are kept.
C6_BetaHeaderMerge ==
    ncalls > 0 =>
        LET out == sent.extra_headers
        IN  /\ ~EffortSet => out = entry_headers
            /\ EffortSet =>
                /\ \A k \in DOMAIN entry_headers : k # BetaKey => out[k] = entry_headers[k]
                /\ DOMAIN out = DOMAIN entry_headers \cup {BetaKey}
                /\ ExistingBeta = <<>> => out[BetaKey] = <<Token>>
                /\ (ExistingBeta # <<>> /\ TokenCount(ExistingBeta) = 0)
                       => out[BetaKey] = ExistingBeta \o <<",", Token>>
                /\ ExistingBeta = <<"a", ",", "b">>
                       => out[BetaKey] = <<"a", ",", "b", ",", Token>>
                /\ TokenCount(ExistingBeta) > 0
                       => out = entry_headers /\ TokenCount(out[BetaKey]) = TokenCount(ExistingBeta)

\* Reasoning effort set and the caller's value "a,b": the header sent is
\* "a,b,<token>".
C6_Witness ==
    /\ ncalls > 0
    /\ EffortSet
    /\ ExistingBeta = <<"a", ",", "b">>
    /\ sent.extra_headers[BetaKey] = <<"a", ",", "b", ",", Token>>

\* C7: a call of _query leaves the caller's header dict and message list
\* with the contents they had before the call.
C7_QueryLeavesCallerObjectsUnchanged ==
    [][caller_headers' = caller_headers /\ caller_messages' = caller_messages]_vars

-----------------------------------------------------------------------------
(* Properties of query, checked under SpecCache                            *)

=============================================================================
